---- MODULE Spec2Model ----
(***************************************************************************)
(* The source-file patch scripts of AiDotNet:                              *)
(*   fix_simpleautoml_indentation.py          one file, region reindent     *)
(*   fix_interpretable_region_indentation.py  file list, region reindent    *)
(*   fix_remaining_cs0535.py                  file list, using injector     *)
(*   fix_async_errors.py                      file list, async/await count  *)
(* A file's text is a sequence of characters.  The marker and keyword      *)
(* strings the scripts search for are single characters of the alphabet.   *)
(* The file system is the only state that outlives a run.                   *)
(***************************************************************************)
EXTENDS Integers, Sequences, FiniteSets, TLC

VARIABLES
    prog,         \* which script runs
    files,        \* the file system: path -> [st, text]
    orig,         \* the file system when the current run started
    idx,          \* position of the script's loop over its file list
    status,       \* "running", "done" (script ended), "crashed" (uncaught exception)
    log,          \* the lines printed by the current run
    fixed_count,  \* fix_async_errors.main's counter
    wrote,        \* paths opened for writing (truncated) by the current run
    runs          \* number of runs of the script started so far

vars == <<prog, files, orig, idx, status, log, fixed_count, wrote, runs>>

----------------------------------------------------------------------------
(* Bounds *)

MaxLines == 4
MaxIndent == 9
MaxUsingLines == 3
MaxChunks == 3
NumFiles == 2
MaxRuns == 2

----------------------------------------------------------------------------
(* The alphabet *)

SP == " "
TAB == "\t"
NL == "\n"
X == "x"
REGION == "#region IInterpretableModel Implementation"
ENDREGION == "#endregion"
USING == "using"
NS == "AiDotNet.Interpretability"
SEMI == ";"
ASYNC == "async"
TASK == "Task"
AWAIT == "await"

Whitespace == {SP, TAB, NL}

----------------------------------------------------------------------------
(* Python string operations *)

\* sub in s
Contains(s, sub) ==
    \E i \in 0..(Len(s) - Len(sub)) : SubSeq(s, i + 1, i + Len(sub)) = sub

\* s.startswith(p)
StartsWith(s, p) ==
    Len(s) >= Len(p) /\ SubSeq(s, 1, Len(p)) = p

RECURSIVE ReadlinesFrom(_, _, _)
ReadlinesFrom(text, i, cur) ==
    IF i > Len(text)
    THEN (IF cur = <<>> THEN <<>> ELSE <<cur>>)
    ELSE IF text[i] = NL
         THEN <<Append(cur, NL)>> \o ReadlinesFrom(text, i + 1, <<>>)
         ELSE ReadlinesFrom(text, i + 1, Append(cur, text[i]))

\* f.readlines(): every line keeps its line break; a last line may have none
Readlines(text) == ReadlinesFrom(text, 1, <<>>)

RECURSIVE Writelines(_)
\* f.writelines(lines): the lines, one after the other, nothing added
Writelines(lines) ==
    IF lines = <<>> THEN <<>> ELSE Head(lines) \o Writelines(Tail(lines))

RECURSIVE SplitFrom(_, _, _)
SplitFrom(text, i, cur) ==
    IF i > Len(text)
    THEN <<cur>>
    ELSE IF text[i] = NL
         THEN <<cur>> \o SplitFrom(text, i + 1, <<>>)
         ELSE SplitFrom(text, i + 1, Append(cur, text[i]))

\* content.split('\n'): never empty, the line breaks dropped
Split(text) == SplitFrom(text, 1, <<>>)

RECURSIVE Join(_)
\* '\n'.join(lines)
Join(lines) ==
    IF lines = <<>> THEN <<>>
    ELSE IF Len(lines) = 1 THEN Head(lines)
    ELSE Head(lines) \o <<NL>> \o Join(Tail(lines))

RECURSIVE LStrip(_)
LStrip(s) ==
    IF s # <<>> /\ Head(s) \in Whitespace THEN LStrip(Tail(s)) ELSE s

RECURSIVE RStrip(_)
RStrip(s) ==
    IF s # <<>> /\ s[Len(s)] \in Whitespace
    THEN RStrip(SubSeq(s, 1, Len(s) - 1))
    ELSE s

\* line.strip()
Strip(s) == RStrip(LStrip(s))

\* lines.insert(k, d), k a Python index in 0..len(lines)
Insert(lines, k, d) ==
    SubSeq(lines, 1, k) \o <<d>> \o SubSeq(lines, k + 1, Len(lines))

----------------------------------------------------------------------------
(* The file system *)

Missing == [st |-> "missing", text |-> <<>>]
Undecodable == [st |-> "undecodable", text |-> <<>>]
File(t) == [st |-> "ok", text |-> t]

\* with open(path, 'w') as f: f.write(new).  open() fails and leaves the file
\* alone, or truncates it; the write then succeeds or fails part-way.
WriteFile(f, new) ==
    {[file |-> File(new), res |-> "ok", opened |-> TRUE],
     [file |-> f, res |-> "open", opened |-> FALSE]}
    \cup {[file |-> File(SubSeq(new, 1, k)), res |-> "write", opened |-> TRUE] :
            k \in 0..(Len(new) - 1)}

Msg(kind, path, err, n) == [kind |-> kind, path |-> path, err |-> err, n |-> n]

----------------------------------------------------------------------------
(* Region reindenter: fix_simpleautoml_indentation.py,                      *)
(* fix_interpretable_region_indentation.py                                  *)

FourSpaces == <<SP, SP, SP, SP>>
EightSpaces == FourSpaces \o FourSpaces

\* LineStep with a start marker toggling the flag instead of setting it
LineStep_Toggle(in_region, line) ==
    IF Contains(line, <<REGION>>)
    THEN [in_region |-> ~in_region, out |-> line]
    ELSE IF Contains(line, <<ENDREGION>>) /\ in_region
    THEN [in_region |-> FALSE, out |-> line]
    ELSE IF in_region
    THEN IF StartsWith(line, FourSpaces) /\ ~StartsWith(line, EightSpaces)
         THEN [in_region |-> TRUE, out |-> FourSpaces \o line]
         ELSE [in_region |-> TRUE, out |-> line]
    ELSE [in_region |-> FALSE, out |-> line]

\* LineStep without the test `not line.startswith("        ")`
LineStep_NoUpperBound(in_region, line) ==
    IF Contains(line, <<REGION>>)
    THEN [in_region |-> TRUE, out |-> line]
    ELSE IF Contains(line, <<ENDREGION>>) /\ in_region
    THEN [in_region |-> FALSE, out |-> line]
    ELSE IF in_region
    THEN IF StartsWith(line, FourSpaces)
         THEN [in_region |-> TRUE, out |-> FourSpaces \o line]
         ELSE [in_region |-> TRUE, out |-> line]
    ELSE [in_region |-> FALSE, out |-> line]

\* LineStep reindenting only a line of exactly four leading spaces
LineStep_ExactlyFour(in_region, line) ==
    IF Contains(line, <<REGION>>)
    THEN [in_region |-> TRUE, out |-> line]
    ELSE IF Contains(line, <<ENDREGION>>) /\ in_region
    THEN [in_region |-> FALSE, out |-> line]
    ELSE IF in_region
    THEN IF StartsWith(line, FourSpaces) /\ ~StartsWith(line, FourSpaces \o <<SP>>)
         THEN [in_region |-> TRUE, out |-> FourSpaces \o line]
         ELSE [in_region |-> TRUE, out |-> line]
    ELSE [in_region |-> FALSE, out |-> line]

\* LineStep reindenting outside the region too
LineStep_Everywhere(in_region, line) ==
    IF Contains(line, <<REGION>>)
    THEN [in_region |-> TRUE, out |-> line]
    ELSE IF Contains(line, <<ENDREGION>>) /\ in_region
    THEN [in_region |-> FALSE, out |-> line]
    ELSE IF StartsWith(line, FourSpaces) /\ ~StartsWith(line, EightSpaces)
    THEN [in_region |-> in_region, out |-> FourSpaces \o line]
    ELSE [in_region |-> in_region, out |-> line]

\* one iteration of `for line in lines`: the flag after it, the line appended
LineStep(in_region, line) ==
    IF Contains(line, <<REGION>>)
    THEN [in_region |-> TRUE, out |-> line]
    ELSE IF Contains(line, <<ENDREGION>>) /\ in_region
    THEN [in_region |-> FALSE, out |-> line]
    ELSE IF in_region
    THEN IF StartsWith(line, FourSpaces) /\ ~StartsWith(line, EightSpaces)
         THEN [in_region |-> TRUE, out |-> FourSpaces \o line]
         ELSE [in_region |-> TRUE, out |-> line]
    ELSE [in_region |-> FALSE, out |-> line]

RECURSIVE LoopFrom(_, _, _)
\* the loop from line i on, entered with the flag in_region
LoopFrom(lines, i, in_region) ==
    IF i > Len(lines) THEN <<>>
    ELSE LET r == LineStep(in_region, lines[i])
         IN  <<[before |-> in_region, after |-> r.in_region, out |-> r.out]>>
             \o LoopFrom(lines, i + 1, r.in_region)

\* in_region = False; fixed_lines = []; for line in lines: ...
Loop(lines) == LoopFrom(lines, 1, FALSE)

fixed_lines(lines) == [i \in 1..Len(lines) |-> Loop(lines)[i].out]

\* region membership of each line, as the flag has it: the flag is set when the
\* line is met or when it is left
RegionFlags(lines) ==
    [i \in 1..Len(lines) |-> Loop(lines)[i].before \/ Loop(lines)[i].after]

\* read the file, reindent, write it back: the outcomes
ReindentFile(f) ==
    IF f.st = "missing"
    THEN {[file |-> f, res |-> "notfound", opened |-> FALSE]}
    ELSE IF f.st = "undecodable"
    THEN {[file |-> f, res |-> "decode", opened |-> FALSE]}
    ELSE WriteFile(f, Writelines(fixed_lines(Readlines(f.text))))

\* fix_simpleautoml_indentation.py, the whole script: no exception is caught
SimpleRun ==
    /\ prog = "simpleautoml"
    /\ status = "running"
    /\ \E o \in ReindentFile(files[1]) :
        /\ files' = [files EXCEPT ![1] = o.file]
        /\ wrote' = IF o.opened THEN wrote \cup {1} ELSE wrote
        /\ IF o.res = "ok"
           THEN /\ log' = Append(log, Msg("fixed", 1, "", 0))
                /\ status' = "done"
           ELSE /\ log' = Append(log, Msg("traceback", 1, o.res, 0))
                /\ status' = "crashed"
    /\ UNCHANGED <<prog, orig, idx, fixed_count, runs>>

\* fix_interpretable_region_indentation.py: one iteration of the loop over
\* files_to_fix, try/except included
RegionStep ==
    /\ prog = "region"
    /\ status = "running"
    /\ idx <= Len(files)
    /\ \E o \in ReindentFile(files[idx]) :
        /\ files' = [files EXCEPT ![idx] = o.file]
        /\ wrote' = IF o.opened THEN wrote \cup {idx} ELSE wrote
        /\ log' = IF o.res = "ok"
                  THEN Append(log, Msg("fixed", idx, "", 0))
                  ELSE Append(log, Msg("error", idx, o.res, 0))
    /\ idx' = idx + 1
    /\ UNCHANGED <<prog, orig, status, fixed_count, runs>>

\* the loop is over: the script ends
RegionFinish ==
    /\ prog = "region"
    /\ status = "running"
    /\ idx > Len(files)
    /\ status' = "done"
    /\ UNCHANGED <<prog, files, orig, idx, log, fixed_count, wrote, runs>>

\* the script is started again on the files it left
Rerun ==
    /\ status = "done"
    /\ runs < MaxRuns
    /\ runs' = runs + 1
    /\ status' = "running"
    /\ idx' = 1
    /\ orig' = files
    /\ log' = <<>>
    /\ wrote' = {}
    /\ fixed_count' = 0
    /\ UNCHANGED <<prog, files>>

----------------------------------------------------------------------------
(* Declaration injector: fix_remaining_cs0535.py *)

\* the required line, "using AiDotNet.Interpretability;"
D == <<USING, SP, NS, SEMI>>

\* the test of the scan for the last using statement
IsUsingLine(line) ==
    StartsWith(Strip(line), <<USING, SP>>) /\ Contains(line, <<SEMI>>)

RECURSIVE FirstUsingFrom(_, _)
FirstUsingFrom(lines, i) ==
    IF i >= Len(lines) THEN -1
    ELSE IF IsUsingLine(lines[i + 1]) THEN i
    ELSE FirstUsingFrom(lines, i + 1)

\* last_using_idx stopping at the first using line
first_using_idx(lines) == FirstUsingFrom(lines, 0)

RECURSIVE LastUsingFrom(_, _, _)
\* for i, line in enumerate(lines): i is the Python index of lines[i + 1]
LastUsingFrom(lines, i, last) ==
    IF i >= Len(lines) THEN last
    ELSE LastUsingFrom(lines, i + 1,
                       IF IsUsingLine(lines[i + 1]) THEN i ELSE last)

\* last_using_idx after the loop, -1 when no line passed the test
last_using_idx(lines) == LastUsingFrom(lines, 0, -1)

\* check_and_add_using on the text read: whether the file is written, and with what
check_and_add_using(content) ==
    IF ~Contains(content, D)
    THEN LET lines == Split(content)
             last == last_using_idx(lines)
         IN  IF last >= 0
             THEN [write |-> TRUE, content |-> Join(Insert(lines, last + 1, D))]
             ELSE [write |-> FALSE, content |-> content]
    ELSE [write |-> FALSE, content |-> content]

\* check_and_add_using with its file access: the outcomes
AddUsingFile(f) ==
    IF f.st = "undecodable"
    THEN {[file |-> f, res |-> "decode", opened |-> FALSE, ret |-> FALSE]}
    ELSE LET r == check_and_add_using(f.text)
         IN  IF r.write
             THEN {[file |-> o.file, res |-> o.res, opened |-> o.opened, ret |-> TRUE] :
                     o \in WriteFile(f, r.content)}
             ELSE {[file |-> f, res |-> "ok", opened |-> FALSE, ret |-> FALSE]}

\* check_implementation on the text read
check_implementation(content) == Contains(content, <<REGION>>)

\* one iteration of the loop over files_to_check; no exception is caught
Cs0535Step ==
    /\ prog = "cs0535"
    /\ status = "running"
    /\ idx <= Len(files)
    /\ IF files[idx].st = "missing"
       THEN /\ log' = Append(log, Msg("notfound", idx, "", 0))
            /\ idx' = idx + 1
            /\ UNCHANGED <<files, wrote, status>>
       ELSE \E o \in AddUsingFile(files[idx]) :
            /\ files' = [files EXCEPT ![idx] = o.file]
            /\ wrote' = IF o.opened THEN wrote \cup {idx} ELSE wrote
            /\ IF o.res = "ok"
               THEN LET has_impl == check_implementation(o.file.text)
                    IN  /\ log' = log \o <<Msg("checking", idx, "", 0)>>
                                  \o (IF o.ret THEN <<Msg("added", idx, "", 0)>> ELSE <<>>)
                                  \o <<Msg("has_impl", idx, "", IF has_impl THEN 1 ELSE 0)>>
                                  \o (IF has_impl THEN <<>> ELSE <<Msg("warning", idx, "", 0)>>)
                        /\ idx' = idx + 1
                        /\ status' = status
               ELSE /\ log' = log \o <<Msg("checking", idx, "", 0),
                                       Msg("traceback", idx, o.res, 0)>>
                    /\ idx' = idx
                    /\ status' = "crashed"
    /\ UNCHANGED <<prog, orig, fixed_count, runs>>

\* the loop is over: print("\nDone!")
Cs0535Finish ==
    /\ prog = "cs0535"
    /\ status = "running"
    /\ idx > Len(files)
    /\ log' = Append(log, Msg("done", 0, "", 0))
    /\ status' = "done"
    /\ UNCHANGED <<prog, files, orig, idx, fixed_count, wrote, runs>>

----------------------------------------------------------------------------
(* Async/await detector: fix_async_errors.py *)

\* len(re.findall(r'async\s+Task', content))
async_count(content) ==
    Cardinality({i \in 1..Len(content) :
        /\ content[i] = ASYNC
        /\ \E j \in (i + 2)..Len(content) :
            /\ content[j] = TASK
            /\ \A k \in (i + 1)..(j - 1) : content[k] \in Whitespace})

\* len(re.findall(r'await\s+', content))
await_count(content) ==
    Cardinality({i \in 1..(Len(content) - 1) :
        content[i] = AWAIT /\ content[i + 1] \in Whitespace})

\* fix_async_method_without_await rewriting what it reports: "async" removed
fix_async_method_removing_async(file_path, content) ==
    LET original_content == content
        deficit == async_count(content) - await_count(content)
        rewritten == IF deficit > 0
                     THEN SelectSeq(content, LAMBDA c : c # ASYNC)
                     ELSE content
    IN  [changed |-> rewritten # original_content,
         content |-> rewritten,
         report |-> IF deficit > 0
                    THEN <<Msg("deficit", file_path, "", deficit)>>
                    ELSE <<>>]

\* fix_async_method_without_await on the text read: content is never reassigned
fix_async_method_without_await(file_path, content) ==
    LET original_content == content
    IN  [changed |-> content # original_content,
         content |-> content,
         report |-> IF async_count(content) > await_count(content)
                    THEN <<Msg("deficit", file_path, "",
                               async_count(content) - await_count(content))>>
                    ELSE <<>>]

\* one iteration of main's loop: process_file(file_path) and the count
AsyncStep ==
    /\ prog = "async"
    /\ status = "running"
    /\ idx <= Len(files)
    /\ IF files[idx].st = "missing"
       THEN /\ log' = Append(log, Msg("notfound", idx, "", 0))
            /\ idx' = idx + 1
            /\ UNCHANGED <<files, wrote, status, fixed_count>>
       ELSE IF files[idx].st = "undecodable"
       THEN /\ log' = Append(log, Msg("traceback", idx, "decode", 0))
            /\ status' = "crashed"
            /\ UNCHANGED <<files, wrote, idx, fixed_count>>
       ELSE LET r == fix_async_method_without_await(idx, files[idx].text)
            IN  IF r.changed
                THEN \E o \in WriteFile(files[idx], r.content) :
                     /\ files' = [files EXCEPT ![idx] = o.file]
                     /\ wrote' = IF o.opened THEN wrote \cup {idx} ELSE wrote
                     /\ IF o.res = "ok"
                        THEN /\ log' = log \o r.report \o <<Msg("fixed", idx, "", 0)>>
                             /\ fixed_count' = fixed_count + 1
                             /\ idx' = idx + 1
                             /\ status' = status
                        ELSE /\ log' = log \o r.report
                                       \o <<Msg("traceback", idx, o.res, 0)>>
                             /\ status' = "crashed"
                             /\ UNCHANGED <<idx, fixed_count>>
                ELSE /\ log' = log \o r.report
                     /\ idx' = idx + 1
                     /\ UNCHANGED <<files, wrote, status, fixed_count>>
    /\ UNCHANGED <<prog, orig, runs>>

\* the loop is over: print(f"\nFixed {fixed_count} files")
AsyncFinish ==
    /\ prog = "async"
    /\ status = "running"
    /\ idx > Len(files)
    /\ log' = Append(log, Msg("summary", 0, "", fixed_count))
    /\ status' = "done"
    /\ UNCHANGED <<prog, files, orig, idx, fixed_count, wrote, runs>>

----------------------------------------------------------------------------
(* Documents *)

Spaces(n) == [i \in 1..n |-> SP]

RECURSIVE SeqsUpTo(_, _)
\* the concatenations of at most n members of S
SeqsUpTo(S, n) ==
    IF n = 0 THEN {<<>>}
    ELSE LET shorter == SeqsUpTo(S, n - 1)
         IN  shorter \cup {d \o l : d \in shorter, l \in S}

ScanLines ==
    {<<X, NL>>, FourSpaces \o <<X, NL>>, <<REGION, NL>>, <<ENDREGION, NL>>,
     <<REGION, ENDREGION, NL>>}

RuleDocs ==
    {head \o Spaces(k) \o body \o tail :
        head \in {<<>>, <<REGION, NL>>, FourSpaces \o <<REGION, NL>>,
                  <<REGION, NL, ENDREGION, NL>>},
        k \in 0..MaxIndent,
        body \in {<<X>>, <<TAB, X>>, <<REGION>>, <<ENDREGION>>},
        tail \in {<<>>, <<NL>>}}

ReindentDocs == SeqsUpTo(ScanLines, MaxLines) \cup RuleDocs

Start(p, fs) ==
    /\ prog = p
    /\ files = fs
    /\ orig = fs
    /\ idx = 1
    /\ status = "running"
    /\ log = <<>>
    /\ fixed_count = 0
    /\ wrote = {}
    /\ runs = 1

InitSimple ==
    \E f \in {File(d) : d \in ReindentDocs} \cup {Missing, Undecodable} :
        Start("simpleautoml", <<f>>)

NextSimple == SimpleRun \/ Rerun

SpecSimple == InitSimple /\ [][NextSimple]_vars

BatchReindentDocs ==
    {<<REGION, NL>> \o FourSpaces \o <<X, NL>>,
     <<REGION, NL>> \o EightSpaces \o <<X, NL>>,
     <<X, NL>>}

\* every file list of NumFiles entries over the given texts, missing and
\* undecodable files included
FileLists(docs) ==
    [1..NumFiles -> {File(d) : d \in docs} \cup {Missing, Undecodable}]

InitRegion == \E fs \in FileLists(BatchReindentDocs) : Start("region", fs)

NextRegion == RegionStep \/ RegionFinish

SpecRegion == InitRegion /\ [][NextRegion]_vars

UsingLines ==
    {<<USING, SP, X, SEMI>>, <<SP, USING, SP, X, SEMI>>, <<USING, SP, X, SEMI, X>>,
     <<USING, SP, X>>, <<X, SEMI>>, <<X>>, D, <<X>> \o D, <<>>}

RECURSIVE JoinedUpTo(_, _)
\* the texts of 1 to n lines of S, joined by line breaks
JoinedUpTo(S, n) ==
    IF n <= 1 THEN S
    ELSE LET shorter == JoinedUpTo(S, n - 1)
         IN  shorter \cup {d \o <<NL>> \o l : d \in shorter, l \in S}

InjectDocs == JoinedUpTo(UsingLines, MaxUsingLines)

InitInject ==
    \E f \in {File(d) : d \in InjectDocs} \cup {Missing, Undecodable} :
        Start("cs0535", <<f>>)

NextInject == Cs0535Step \/ Cs0535Finish \/ Rerun

SpecInject == InitInject /\ [][NextInject]_vars

BatchUsingDocs ==
    {<<USING, SP, X, SEMI, NL, REGION, NL>>,
     D \o <<NL, X, NL>>,
     <<X, NL>>}

InitCs0535 == \E fs \in FileLists(BatchUsingDocs) : Start("cs0535", fs)

NextCs0535 == Cs0535Step \/ Cs0535Finish

SpecCs0535 == InitCs0535 /\ [][NextCs0535]_vars

AsyncChunks == {<<ASYNC, SP, TASK, SP>>, <<AWAIT, SP>>}

AsyncDocs ==
    SeqsUpTo(AsyncChunks, MaxChunks)
    \cup {<<ASYNC, TASK>>, <<AWAIT>>, <<ASYNC, NL, SP, TASK, AWAIT, TAB>>}

InitAsync == \E fs \in FileLists(AsyncDocs) : Start("async", fs)

NextAsync == AsyncStep \/ AsyncFinish

SpecAsync == InitAsync /\ [][NextAsync]_vars

Init == InitSimple \/ InitRegion \/ InitInject \/ InitCs0535 \/ InitAsync

Next ==
    \/ SimpleRun
    \/ RegionStep
    \/ RegionFinish
    \/ Cs0535Step
    \/ Cs0535Finish
    \/ AsyncStep
    \/ AsyncFinish
    \/ Rerun

Spec == Init /\ [][Next]_vars


----------------------------------------------------------------------------
(* Region reindenter: properties *)

HasStart(line) == \E i \in 1..Len(line) : line[i] = REGION
HasEnd(line) == \E i \in 1..Len(line) : line[i] = ENDREGION

\* line i lies between a start-marker line and the first end-marker line that
\* follows it, both inclusive, or after a start-marker line no end marker follows
InRegion(lines, i) ==
    \E j \in 1..i :
        /\ HasStart(lines[j])
        /\ \A k \in (j + 1)..(i - 1) : ~HasEnd(lines[k])

\* the number of space characters the line begins with
LeadingSpaces(line) ==
    Cardinality({n \in 1..Len(line) : \A m \in 1..n : line[m] = SP})

\* the length of the line's leading run of blanks and tabs
LeadingWhitespace(line) ==
    Cardinality({n \in 1..Len(line) : \A m \in 1..n : line[m] \in {SP, TAB}})

InLines == Readlines(orig[1].text)
OutLines == Readlines(files[1].text)
Reindented == prog = "simpleautoml" /\ status = "done"

\* C1: a reindent pass over the output of a reindent pass changes nothing:
\* f(f(x)) = f(x), and a second run of the script leaves the file as the first
\* run left it.
C1_ReindentIdempotent ==
    Reindented =>
        /\ Writelines(fixed_lines(OutLines)) = files[1].text
        /\ runs >= 2 => files[1] = orig[1]

C1_Witness ==
    /\ Reindented
    /\ files[1].text # orig[1].text
    /\ \E i \in 1..Len(InLines) :
        /\ InLines[i] = FourSpaces \o <<X, NL>>
        /\ OutLines[i] = EightSpaces \o <<X, NL>>

\* C5 as stated: every in-region line, marker lines included, gets four spaces
\* prepended when its leading whitespace run is exactly four characters long,
\* and is unchanged otherwise.
C5_Original ==
    Reindented =>
        \A i \in 1..Len(InLines) :
            InRegion(InLines, i) =>
                OutLines[i] = IF LeadingWhitespace(InLines[i]) = Len(FourSpaces)
                              THEN FourSpaces \o InLines[i]
                              ELSE InLines[i]

\* C5 amended: an in-region line that holds no marker gets four spaces prepended
\* when it begins with four to seven spaces (it starts with four spaces and not
\* with eight); every other line, the marker lines included, is unchanged.
C5_ReindentRule ==
    Reindented =>
        /\ Len(OutLines) = Len(InLines)
        /\ \A i \in 1..Len(InLines) :
            OutLines[i] =
                IF /\ InRegion(InLines, i)
                   /\ ~HasStart(InLines[i])
                   /\ ~HasEnd(InLines[i])
                   /\ LeadingSpaces(InLines[i]) >= Len(FourSpaces)
                   /\ LeadingSpaces(InLines[i]) < Len(EightSpaces)
                THEN FourSpaces \o InLines[i]
                ELSE InLines[i]

C5_Witness ==
    /\ Reindented
    /\ \E i \in 1..Len(InLines) :
        /\ InRegion(InLines, i)
        /\ ~HasStart(InLines[i])
        /\ LeadingSpaces(InLines[i]) = Len(FourSpaces) + 1
        /\ OutLines[i] = FourSpaces \o InLines[i]
    /\ \E i \in 1..Len(InLines) :
        /\ InRegion(InLines, i)
        /\ LeadingSpaces(InLines[i]) = Len(FourSpaces)
        /\ HasStart(InLines[i])
        /\ OutLines[i] = InLines[i]

\* C7: the flag of the scan marks exactly the lines between a start-marker line
\* and the next end-marker line, both inclusive (flat: a second start marker
\* does not nest, an end marker outside a region does nothing, an unterminated
\* region runs to the end of the file), and only those lines are reindented.
C7_FlatRegion ==
    Reindented =>
        /\ \A i \in 1..Len(InLines) :
            RegionFlags(InLines)[i] <=> InRegion(InLines, i)
        /\ \A i \in 1..Len(InLines) :
            (LStrip(InLines[i]) = <<X, NL>> /\ LeadingSpaces(InLines[i]) = Len(FourSpaces))
                => (OutLines[i] # InLines[i] <=> InRegion(InLines, i))

C7_Witness ==
    /\ Reindented
    /\ \E i, j, k, m \in 1..Len(InLines) :
        /\ i < j /\ j < k /\ k < m
        /\ HasStart(InLines[i])
        /\ HasStart(InLines[j])
        /\ HasEnd(InLines[k]) /\ ~HasStart(InLines[k])
        /\ InLines[m] = FourSpaces \o <<X, NL>>
        /\ ~InRegion(InLines, m)
        /\ OutLines[m] = InLines[m]

\* C8: a line outside every region is at the same position and identical in the
\* output, line break included, and the output has as many lines as the input.
C8_OutsideUntouched ==
    Reindented =>
        /\ Len(OutLines) = Len(InLines)
        /\ \A i \in 1..Len(InLines) :
            ~InRegion(InLines, i) => OutLines[i] = InLines[i]

C8_Witness ==
    /\ Reindented
    /\ \E i, j \in 1..Len(InLines) :
        /\ ~InRegion(InLines, i)
        /\ InLines[i] = FourSpaces \o <<X, NL>>
        /\ OutLines[i] = InLines[i]
        /\ OutLines[j] # InLines[j]

----------------------------------------------------------------------------
(* Declaration injector: properties *)

\* the number of places where d occurs in text
Occurrences(text, d) ==
    Cardinality({i \in 1..(Len(text) - Len(d) + 1) : SubSeq(text, i, i + Len(d) - 1) = d})

Max(S) == CHOOSE m \in S : \A n \in S : n <= m

\* the lines that start with "using " and end with ";"
StrictUsingLines(lines) ==
    {i \in 1..Len(lines) :
        /\ StartsWith(lines[i], <<USING, SP>>)
        /\ lines[i][Len(lines[i])] = SEMI}

\* the lines that start with "using " once surrounding whitespace is stripped,
\* and hold a ";" anywhere
LooseUsingLines(lines) ==
    {i \in 1..Len(lines) :
        /\ StartsWith(Strip(lines[i]), <<USING, SP>>)
        /\ \E m \in 1..Len(lines[i]) : lines[i][m] = SEMI}

Injected ==
    /\ prog = "cs0535"
    /\ status = "done"
    /\ Len(files) = 1
    /\ orig[1].st = "ok"

\* C2: after two runs of check_and_add_using over a file that held D at most
\* once, D occurs exactly once in the file.
C2_Original ==
    (Injected /\ runs >= 2 /\ Occurrences(orig[1].text, D) <= 1)
        => Occurrences(files[1].text, D) = 1

\* C6 as stated: when D does not occur in the document, D is inserted as a new
\* line right after the last line that starts with "using " and ends with ";",
\* every original line kept in order.
C6_Original ==
    (Injected /\ ~Contains(orig[1].text, D)
              /\ StrictUsingLines(Split(orig[1].text)) # {})
        => Split(files[1].text)
             = Insert(Split(orig[1].text),
                      Max(StrictUsingLines(Split(orig[1].text))), D)

\* C6 amended: when D does not occur in the document, D is inserted as a new
\* line right after the last line that, stripped of surrounding whitespace,
\* starts with "using " and that holds a ";" anywhere, and after no other line;
\* every original line is kept in order.
C6_InjectAfterLastUsing ==
    (Injected /\ ~Contains(orig[1].text, D)
              /\ LooseUsingLines(Split(orig[1].text)) # {})
        => /\ Split(files[1].text)
                = Insert(Split(orig[1].text),
                         Max(LooseUsingLines(Split(orig[1].text))), D)
           /\ Occurrences(files[1].text, D) = 1

C6_Witness ==
    /\ Injected
    /\ ~Contains(orig[1].text, D)
    /\ LET lines == Split(orig[1].text)
       IN  /\ Cardinality(LooseUsingLines(lines)) >= 2
           /\ Max(LooseUsingLines(lines)) < Len(lines)
           /\ Max(LooseUsingLines(lines)) \notin StrictUsingLines(lines)
           /\ Split(files[1].text) = Insert(lines, Max(LooseUsingLines(lines)), D)

----------------------------------------------------------------------------
(* Batch runs: properties *)

Logged(kind, p) == {i \in 1..Len(log) : log[i].kind = kind /\ log[i].path = p}

Reindent(text) == Writelines(fixed_lines(Readlines(text)))

\* C3: no failure of one entry (missing file, undecodable content, failed
\* write) stops the run of the loop over files_to_check.
C3_Original == prog = "cs0535" => status # "crashed"

\* C4: a file the reindent run has processed without an error is written, and
\* reported as fixed, exactly when the reindented text differs from the text read.
C4_Original ==
    prog = "region" =>
        \A p \in 1..(idx - 1) :
            (orig[p].st = "ok" /\ Logged("error", p) = {}) =>
                /\ p \in wrote <=> Reindent(orig[p].text) # orig[p].text
                /\ Logged("fixed", p) # {} <=> Reindent(orig[p].text) # orig[p].text

\* C10: when the write-back of a file fails after the file was opened for
\* writing, the file holds what it held before, the failure is recorded for the
\* file and the run goes on.
C10_Original ==
    prog = "region" =>
        \A i \in 1..Len(log) :
            (log[i].kind = "error" /\ log[i].err = "write") =>
                /\ files[log[i].path] = orig[log[i].path]
                /\ status # "crashed"

----------------------------------------------------------------------------
(* Async/await detector: properties *)

====
